---- MODULE Spec2Model ----
(***************************************************************************)
(* Product Readiness Review (PRR) backend: the section scoring done by the *)
(* POST /prr handler and the comparison of two submissions, by             *)
(* generateComparisonReport and by the GET /prr/compare handler.           *)
(*                                                                         *)
(* Response strings are sequences of one-character strings, so that        *)
(* strings.ToLower is computed character by character.  Identifiers        *)
(* (question, section, submission, service ids) and question texts are     *)
(* only ever compared for equality and are TLA+ strings; "" is the empty   *)
(* Go string.  A Go map is a record [isNil, m] with m a function; a Go     *)
(* slice whose nil-ness is observable in the JSON output is a record       *)
(* [isNil, elems].                                                         *)
(***************************************************************************)
EXTENDS Integers, Sequences, FiniteSets, TLC

VARIABLES
    questions,      \* the "questions" index: document id -> models.Question
    created,        \* the number of questions created so far (uuids drawn for them)
    submissions,    \* the "prr_submissions" index: document id -> models.PRRSubmission
    now,            \* the clock read by time.Now()
    response,       \* the last HTTP response written by a /prr handler
    answers,        \* scoring loop: submission.Answers
    questionsMap,   \* scoring loop: the catalog fetched at scoring time
    sectionScores,  \* scoring loop: submission.SectionScores
    idx,            \* scoring loop: position of the next answer of the range loop
    oldPRR,         \* generateComparisonReport: first parameter
    newPRR,         \* generateComparisonReport: second parameter
    allQuestions,   \* generateComparisonReport: third parameter
    serviceID,      \* generateComparisonReport: fourth parameter
    report,         \* generateComparisonReport: the returned report
    pc,             \* position of the running computation
    services,       \* the "services" index: document id -> models.Service
    svcReqs         \* POST /services: the state of every request

vars == <<questions, created, submissions, now, response, answers, questionsMap,
          sectionScores, idx, oldPRR, newPRR, allQuestions, serviceID, report, pc,
          services, svcReqs>>

sysVars == <<questions, created, submissions, now, response>>
scoreVars == <<answers, questionsMap, sectionScores, idx>>
cmpVars == <<oldPRR, newPRR, allQuestions, serviceID, report>>
svcVars == <<services, svcReqs>>

(***************************************************************************)
(* Bounds of the model.                                                    *)
(***************************************************************************)
MaxAnswers == 2

(***************************************************************************)
(* Strings.                                                                *)
(***************************************************************************)
UpperChars == <<"A","B","C","D","E","F","G","H","I","J","K","L","M",
                "N","O","P","Q","R","S","T","U","V","W","X","Y","Z">>
LowerChars == <<"a","b","c","d","e","f","g","h","i","j","k","l","m",
                "n","o","p","q","r","s","t","u","v","w","x","y","z">>

LowerChar(c) ==
    IF \E i \in 1..Len(UpperChars) : UpperChars[i] = c
    THEN LowerChars[CHOOSE i \in 1..Len(UpperChars) : UpperChars[i] = c]
    ELSE c

ToLower(s) == [i \in 1..Len(s) |-> LowerChar(s[i])]

EmptyString == <<>>
StrYes == <<"Y","e","s">>
StrYesLower == <<"y","e","s">>
StrNoUpper == <<"N","O">>
StrNA == <<"N","/","A">>
StrMaybe == <<"M","a","y","b","e">>

\* the three case labels of the switch in submitPRRHandler
LitYes == <<"y","e","s">>
LitNo == <<"n","o">>
LitNA == <<"n","/","a">>

(***************************************************************************)
(* Go maps and slices.                                                     *)
(***************************************************************************)
NilMap == [isNil |-> TRUE, m |-> <<>>]
MakeMap == [isNil |-> FALSE, m |-> <<>>]
MapKeys(mp) == DOMAIN mp.m
MapHas(mp, k) == k \in DOMAIN mp.m
\* mp[k] = v on a map that was made
MapPut(mp, k, v) ==
    [isNil |-> FALSE,
     m |-> [x \in (DOMAIN mp.m) \cup {k} |-> IF x = k THEN v ELSE mp.m[x]]]

NilSlice == [isNil |-> TRUE, elems |-> <<>>]
EmptySlice == [isNil |-> FALSE, elems |-> <<>>]
SliceAppend(s, x) == [isNil |-> FALSE, elems |-> Append(s.elems, x)]

\* the orders in which a range loop can visit the keys of a map
Orderings(S) ==
    {o \in [1..Cardinality(S) -> S] : \A i, j \in DOMAIN o : i # j => o[i] # o[j]}

(***************************************************************************)
(* models.                                                                 *)
(***************************************************************************)
Question(id, sec, text) == [ID |-> id, SectionID |-> sec, Text |-> text]
Answer(q, r) == [QuestionID |-> q, Response |-> r]
SectionScore(sec, y, n, na) ==
    [SectionID |-> sec, YesCount |-> y, NoCount |-> n, NaCount |-> na]
ZeroSectionScore == SectionScore("", 0, 0, 0)

(***************************************************************************)
(* Scoring: the body of the range loop of submitPRRHandler, step 3.        *)
(***************************************************************************)
\* variant: the response is compared as stored, without strings.ToLower
CountResponse_CaseSensitive(score, resp) ==
    IF resp = LitYes THEN [score EXCEPT !.YesCount = @ + 1]
    ELSE IF resp = LitNo THEN [score EXCEPT !.NoCount = @ + 1]
    ELSE IF resp = LitNA THEN [score EXCEPT !.NaCount = @ + 1]
    ELSE score

\* variant: the default case of the switch tallies the response as not applicable
CountResponse_DefaultCountsNa(score, resp) ==
    LET r == ToLower(resp) IN
    IF r = LitYes THEN [score EXCEPT !.YesCount = @ + 1]
    ELSE IF r = LitNo THEN [score EXCEPT !.NoCount = @ + 1]
    ELSE [score EXCEPT !.NaCount = @ + 1]

CountResponse(score, resp) ==
    LET r == ToLower(resp) IN
    IF r = LitYes THEN [score EXCEPT !.YesCount = @ + 1]
    ELSE IF r = LitNo THEN [score EXCEPT !.NoCount = @ + 1]
    ELSE IF r = LitNA THEN [score EXCEPT !.NaCount = @ + 1]
    ELSE score

\* variant: the check for an empty section id is missing
ScoreAnswer_NoEmptySectionCheck(scores, answer, qmap) ==
    IF ~MapHas(qmap, answer.QuestionID) THEN scores
    ELSE LET sectionID == qmap.m[answer.QuestionID].SectionID
             score == IF MapHas(scores, sectionID)
                      THEN scores.m[sectionID]
                      ELSE SectionScore(sectionID, 0, 0, 0)
         IN  MapPut(scores, sectionID, CountResponse(score, answer.Response))

\* variant: the lookup result "ok" is ignored, an unknown question is scored
\* as the zero Question
ScoreAnswer_UnknownScored(scores, answer, qmap) ==
    LET sectionID == IF MapHas(qmap, answer.QuestionID)
                     THEN qmap.m[answer.QuestionID].SectionID
                     ELSE ""
        score == IF MapHas(scores, sectionID)
                 THEN scores.m[sectionID]
                 ELSE SectionScore(sectionID, 0, 0, 0)
    IN  IF MapHas(qmap, answer.QuestionID) /\ sectionID = "" THEN scores
        ELSE MapPut(scores, sectionID, CountResponse(score, answer.Response))

\* variant: the tally of the section is not read back from the map, every
\* answer starts from a fresh SectionScore
ScoreAnswer_TallyNotReadBack(scores, answer, qmap) ==
    IF ~MapHas(qmap, answer.QuestionID) THEN scores
    ELSE LET sectionID == qmap.m[answer.QuestionID].SectionID IN
         IF sectionID = "" THEN scores
         ELSE MapPut(scores, sectionID,
                     CountResponse(SectionScore(sectionID, 0, 0, 0), answer.Response))

ScoreAnswer(scores, answer, qmap) ==
    IF ~MapHas(qmap, answer.QuestionID) THEN scores
    ELSE LET question == qmap.m[answer.QuestionID]
             sectionID == question.SectionID
         IN  IF sectionID = "" THEN scores
             ELSE LET score == IF MapHas(scores, sectionID)
                               THEN scores.m[sectionID]
                               ELSE SectionScore(sectionID, 0, 0, 0)
                  IN  MapPut(scores, sectionID, CountResponse(score, answer.Response))

RECURSIVE ScoreAnswers(_, _, _)
ScoreAnswers(scores, ans, qmap) ==
    IF ans = <<>> THEN scores
    ELSE ScoreAnswers(ScoreAnswer(scores, Head(ans), qmap), Tail(ans), qmap)

(***************************************************************************)
(* generateComparisonReport.                                               *)
(***************************************************************************)
PRRSubmission(id, svc, user, ts, ans, scores) ==
    [ID |-> id, ServiceID |-> svc, UserID |-> user, Timestamp |-> ts,
     Answers |-> ans, SectionScores |-> scores]

AnswerChangeDetail(q, text, old, new) ==
    [QuestionID |-> q, QuestionText |-> text, OldAnswer |-> old, NewAnswer |-> new]

\* variant: a missing tally is replaced by an empty tally for the section
ScoreLookup_KeyedZero(scores, secID) ==
    IF MapHas(scores, secID) THEN scores.m[secID] ELSE SectionScore(secID, 0, 0, 0)

\* the value a lookup in a map of SectionScore yields: the zero struct when absent
ScoreLookup(scores, secID) ==
    IF MapHas(scores, secID) THEN scores.m[secID] ELSE ZeroSectionScore

\* variant: the second loop, over the new submission's scores, is missing
AllSectionIDs_OldOnly(old, new) == MapKeys(old.SectionScores)

\* allSectionIDs: the ids of the old map, then those of the new map
AllSectionIDs(old, new) == MapKeys(old.SectionScores) \cup MapKeys(new.SectionScores)

\* variant: newScore is looked up in the old submission's scores
SectionComparisonOf_NewFromOld(old, new) ==
    [isNil |-> FALSE,
     m |-> [secID \in AllSectionIDs(old, new) |->
              [OldScores |-> ScoreLookup(old.SectionScores, secID),
               NewScores |-> ScoreLookup(old.SectionScores, secID)]]]

SectionComparisonOf(old, new) ==
    [isNil |-> FALSE,
     m |-> [secID \in AllSectionIDs(old, new) |->
              [OldScores |-> ScoreLookup(old.SectionScores, secID),
               NewScores |-> ScoreLookup(new.SectionScores, secID)]]]

\* variant: an answer does not overwrite an earlier one for the same question
RECURSIVE AnswersMapFrom_FirstWins(_, _)
AnswersMapFrom_FirstWins(mp, ans) ==
    IF ans = <<>> THEN mp
    ELSE AnswersMapFrom_FirstWins(
             IF MapHas(mp, Head(ans).QuestionID) THEN mp
             ELSE MapPut(mp, Head(ans).QuestionID, Head(ans).Response),
             Tail(ans))

\* oldAnswersMap / newAnswersMap: a later answer overwrites an earlier one
RECURSIVE AnswersMapFrom(_, _)
AnswersMapFrom(mp, ans) ==
    IF ans = <<>> THEN mp
    ELSE AnswersMapFrom(MapPut(mp, Head(ans).QuestionID, Head(ans).Response), Tail(ans))

AnswersMap(ans) == AnswersMapFrom(MakeMap, ans)

\* variant: a question missing from the catalog is shown by its id
QuestionTextOf_IDWhenMissing(allQ, qID) == IF MapHas(allQ, qID) THEN allQ.m[qID].Text ELSE qID

QuestionTextOf(allQ, qID) == IF MapHas(allQ, qID) THEN allQ.m[qID].Text ELSE ""

\* variant: the responses are compared case-insensitively
OldLoopBody_FoldedCompare(rep, qID, oldMap, newMap, allQ) ==
    LET questionText == QuestionTextOf(allQ, qID)
        oldResp == oldMap.m[qID]
    IN  IF MapHas(newMap, qID)
        THEN IF ToLower(oldResp) # ToLower(newMap.m[qID])
             THEN [rep EXCEPT !.AnswerChanges =
                      SliceAppend(@, AnswerChangeDetail(qID, questionText, oldResp, newMap.m[qID]))]
             ELSE rep
        ELSE [rep EXCEPT !.NoLongerAnsweredQuestions =
                 SliceAppend(@, AnswerChangeDetail(qID, questionText, oldResp, EmptyString))]

\* variant: the else branch hangs on the inner if, so that an unchanged answer
\* is reported as no longer answered and a dropped one is not reported
OldLoopBody_DanglingElse(rep, qID, oldMap, newMap, allQ) ==
    LET questionText == QuestionTextOf(allQ, qID)
        oldResp == oldMap.m[qID]
    IN  IF MapHas(newMap, qID)
        THEN IF oldResp # newMap.m[qID]
             THEN [rep EXCEPT !.AnswerChanges =
                      SliceAppend(@, AnswerChangeDetail(qID, questionText, oldResp, newMap.m[qID]))]
             ELSE [rep EXCEPT !.NoLongerAnsweredQuestions =
                      SliceAppend(@, AnswerChangeDetail(qID, questionText, oldResp, EmptyString))]
        ELSE rep

\* variant: OldAnswer and NewAnswer of a no-longer-answered entry are mixed up
OldLoopBody_NoLongerSwapped(rep, qID, oldMap, newMap, allQ) ==
    LET questionText == QuestionTextOf(allQ, qID)
        oldResp == oldMap.m[qID]
    IN  IF MapHas(newMap, qID)
        THEN IF oldResp # newMap.m[qID]
             THEN [rep EXCEPT !.AnswerChanges =
                      SliceAppend(@, AnswerChangeDetail(qID, questionText, oldResp, newMap.m[qID]))]
             ELSE rep
        ELSE [rep EXCEPT !.NoLongerAnsweredQuestions =
                 SliceAppend(@, AnswerChangeDetail(qID, questionText, EmptyString, oldResp))]

\* one iteration of "for qID, oldResp := range oldAnswersMap"
OldLoopBody(rep, qID, oldMap, newMap, allQ) ==
    LET questionText == QuestionTextOf(allQ, qID)
        oldResp == oldMap.m[qID]
    IN  IF MapHas(newMap, qID)
        THEN IF oldResp # newMap.m[qID]
             THEN [rep EXCEPT !.AnswerChanges =
                      SliceAppend(@, AnswerChangeDetail(qID, questionText, oldResp, newMap.m[qID]))]
             ELSE rep
        ELSE [rep EXCEPT !.NoLongerAnsweredQuestions =
                 SliceAppend(@, AnswerChangeDetail(qID, questionText, oldResp, EmptyString))]

\* variant: the test that the question is absent from oldAnswersMap is missing
NewLoopBody_Unconditional(rep, qID, oldMap, newMap, allQ) ==
    [rep EXCEPT !.NewlyAnsweredQuestions =
        SliceAppend(@, AnswerChangeDetail(qID, QuestionTextOf(allQ, qID),
                                          EmptyString, newMap.m[qID]))]

\* variant: the new response is stored as OldAnswer
NewLoopBody_AnswerSwapped(rep, qID, oldMap, newMap, allQ) ==
    IF ~MapHas(oldMap, qID)
    THEN [rep EXCEPT !.NewlyAnsweredQuestions =
             SliceAppend(@, AnswerChangeDetail(qID, QuestionTextOf(allQ, qID),
                                               newMap.m[qID], EmptyString))]
    ELSE rep

\* one iteration of "for qID, newResp := range newAnswersMap"
NewLoopBody(rep, qID, oldMap, newMap, allQ) ==
    LET questionText == QuestionTextOf(allQ, qID)
        newResp == newMap.m[qID]
    IN  IF ~MapHas(oldMap, qID)
        THEN [rep EXCEPT !.NewlyAnsweredQuestions =
                 SliceAppend(@, AnswerChangeDetail(qID, questionText, EmptyString, newResp))]
        ELSE rep

RECURSIVE OldLoop(_, _, _, _, _)
OldLoop(rep, ord, oldMap, newMap, allQ) ==
    IF ord = <<>> THEN rep
    ELSE OldLoop(OldLoopBody(rep, Head(ord), oldMap, newMap, allQ),
                 Tail(ord), oldMap, newMap, allQ)

RECURSIVE NewLoop(_, _, _, _, _)
NewLoop(rep, ord, oldMap, newMap, allQ) ==
    IF ord = <<>> THEN rep
    ELSE NewLoop(NewLoopBody(rep, Head(ord), oldMap, newMap, allQ),
                 Tail(ord), oldMap, newMap, allQ)

\* the report literal at the top of generateComparisonReport
NewReport(old, new, svc) ==
    [ServiceID |-> svc,
     PRRSubmissionIDOld |-> old.ID,
     PRRSubmissionIDNew |-> new.ID,
     SectionComparison |-> MakeMap,
     AnswerChanges |-> EmptySlice,
     NewlyAnsweredQuestions |-> EmptySlice,
     NoLongerAnsweredQuestions |-> EmptySlice]

\* variant: the lookup of a missing section stores the default tally in the
\* old submission's score map
ParametersAfterCall_DefaultsStored(old, new, allQ) ==
    [oldPRR |-> [old EXCEPT !.SectionScores =
                    [isNil |-> FALSE,
                     m |-> [secID \in AllSectionIDs(old, new) |->
                              ScoreLookup(old.SectionScores, secID)]]],
     newPRR |-> new,
     allQuestions |-> allQ]

\* the submissions and the catalog as the caller holds them after the call:
\* the function stores only into its report, allSectionIDs, oldAnswersMap and
\* newAnswersMap
ParametersAfterCall(old, new, allQ) ==
    [oldPRR |-> old, newPRR |-> new, allQuestions |-> allQ]

\* ordOld and ordNew are the orders in which the two range loops happen to
\* visit the keys of oldAnswersMap and newAnswersMap
generateComparisonReport(old, new, allQ, svc, ordOld, ordNew) ==
    LET r0 == [NewReport(old, new, svc) EXCEPT
                  !.SectionComparison = SectionComparisonOf(old, new)]
        oldAnswersMap == AnswersMap(old.Answers)
        newAnswersMap == AnswersMap(new.Answers)
        r1 == OldLoop(r0, ordOld, oldAnswersMap, newAnswersMap, allQ)
    IN  NewLoop(r1, ordNew, oldAnswersMap, newAnswersMap, allQ)

(***************************************************************************)
(* Input domains.                                                          *)
(***************************************************************************)
QIDs == {"q1", "q2"}
SectionIDs == {"s1", "s2"}
ScoreResponses == {StrYes, StrYesLower, StrNoUpper, StrNA, StrMaybe, EmptyString}
CmpResponses == {StrYes, StrYesLower}

AnswerLists(R) ==
    UNION {[1..n -> {Answer(q, r) : q \in QIDs, r \in R}] : n \in 0..MaxAnswers}

\* catalogs keyed by question id, every question stored under its own id
Catalogs(Secs, Texts) ==
    UNION {{[isNil |-> FALSE,
             m |-> [q \in D |-> Question(q, c[q][1], c[q][2])]] :
               c \in [D -> Secs \X Texts]} : D \in SUBSET QIDs}

\* score maps: nil, or one tally (y, n, 0) under each key of a set of sections
ScoreMaps(y, n) ==
    {NilMap} \cup
    {[isNil |-> FALSE, m |-> [s \in D |-> SectionScore(s, y, n, 0)]] :
        D \in SUBSET SectionIDs}

ZeroSubmission == PRRSubmission("", "", "", 0, <<>>, NilMap)
ZeroReport ==
    [ServiceID |-> "", PRRSubmissionIDOld |-> "", PRRSubmissionIDNew |-> "",
     SectionComparison |-> NilMap, AnswerChanges |-> NilSlice,
     NewlyAnsweredQuestions |-> NilSlice, NoLongerAnsweredQuestions |-> NilSlice]
NoResponse == [handler |-> "", status |-> 0, report |-> ZeroReport]

SysIdle ==
    /\ questions = MakeMap
    /\ created = 0
    /\ submissions = MakeMap
    /\ now = 0
    /\ response = NoResponse

ScoreIdle ==
    /\ answers = <<>>
    /\ questionsMap = MakeMap
    /\ sectionScores = MakeMap
    /\ idx = 1

CmpIdle ==
    /\ oldPRR = ZeroSubmission
    /\ newPRR = ZeroSubmission
    /\ allQuestions = MakeMap
    /\ serviceID = ""
    /\ report = ZeroReport

\* the requests that POST /services receives
ServiceRequests == {"r1", "r2"}

Service(id, name) == [ID |-> id, Name |-> name]
ZeroService == Service("", <<>>)

\* a request that has not arrived yet
NoServiceRequest ==
    [pc |-> "start", name |-> <<>>, search |-> "", status |-> 0, service |-> ZeroService]

SvcIdle ==
    /\ services = MakeMap
    /\ svcReqs = [r \in ServiceRequests |-> NoServiceRequest]

(***************************************************************************)
(* SpecScore: the scoring loop of submitPRRHandler on any answer list and  *)
(* any fetched catalog, one answer per step.                               *)
(***************************************************************************)
InitScore ==
    /\ SysIdle
    /\ CmpIdle
    /\ SvcIdle
    /\ answers \in AnswerLists(ScoreResponses)
    /\ questionsMap \in Catalogs({""} \cup SectionIDs, {"Question Text"})
    /\ sectionScores = MakeMap
    /\ idx = 1
    /\ pc = "scoring"

ScoreStep ==
    /\ pc = "scoring"
    /\ idx <= Len(answers)
    /\ sectionScores' = ScoreAnswer(sectionScores, answers[idx], questionsMap)
    /\ idx' = idx + 1
    /\ UNCHANGED <<answers, questionsMap, pc, sysVars, cmpVars, svcVars>>

NextScore == ScoreStep

SpecScore == InitScore /\ [][NextScore]_vars

(***************************************************************************)
(* SpecCompare: generateComparisonReport on any two submissions.           *)
(***************************************************************************)
InitCompare ==
    /\ SysIdle
    /\ ScoreIdle
    /\ SvcIdle
    /\ \E a \in AnswerLists(CmpResponses), sc \in ScoreMaps(1, 0) :
          oldPRR = PRRSubmission("prrOld", "service1", "user1", 0, a, sc)
    /\ \E a \in AnswerLists(CmpResponses), sc \in ScoreMaps(0, 2) :
          newPRR = PRRSubmission("prrNew", "service1", "user1", 1, a, sc)
    /\ allQuestions \in Catalogs({"s1"}, {"Question Text"})
    /\ serviceID = "service1"
    /\ report = ZeroReport
    /\ pc = "compare"

GenerateComparisonReport ==
    /\ pc = "compare"
    /\ \E ordOld \in Orderings(MapKeys(AnswersMap(oldPRR.Answers))),
          ordNew \in Orderings(MapKeys(AnswersMap(newPRR.Answers))) :
          report' = generateComparisonReport(oldPRR, newPRR, allQuestions,
                                             serviceID, ordOld, ordNew)
    /\ oldPRR' = ParametersAfterCall(oldPRR, newPRR, allQuestions).oldPRR
    /\ newPRR' = ParametersAfterCall(oldPRR, newPRR, allQuestions).newPRR
    /\ allQuestions' = ParametersAfterCall(oldPRR, newPRR, allQuestions).allQuestions
    /\ pc' = "compared"
    /\ UNCHANGED <<serviceID, sysVars, scoreVars, svcVars>>

NextCompare == GenerateComparisonReport

SpecCompare == InitCompare /\ [][NextCompare]_vars

(***************************************************************************)
(* The handlers over the document store.                                   *)
(***************************************************************************)
\* the uuids uuid.New() hands out, in the order in which they are drawn
QuestionUUIDs == <<"q1", "q2">>
SubmissionUUIDs == <<"p1", "p2">>

SubmitPRRRequest(svc, user, ans) == [ServiceID |-> svc, UserID |-> user, Answers |-> ans]

SubmitAnswerLists ==
    {<<Answer("q1", StrYes)>>,
     <<Answer("q1", EmptyString), Answer("q2", StrNoUpper)>>}

\* the request bodies posted to /prr: the well-formed ones, and one for each
\* way of being rejected
SubmitRequests ==
    {SubmitPRRRequest("service1", "user1", ans) : ans \in SubmitAnswerLists}
    \cup {SubmitPRRRequest("service2", "user1", <<Answer("q1", StrYes)>>),
          SubmitPRRRequest("", "user1", <<Answer("q1", StrYes)>>),
          SubmitPRRRequest(" ", "user1", <<Answer("q1", StrYes)>>),
          SubmitPRRRequest("service1", "", <<Answer("q1", StrYes)>>),
          SubmitPRRRequest("service1", "user1", <<>>)}

CompareRequest(svc, id1, id2) == [service_id |-> svc, prr_id1 |-> id1, prr_id2 |-> id2]

\* the query strings sent to /prr/compare
CompareRequests ==
    {CompareRequest(svc, id1, id2) :
        svc \in {"service1", "service2"}, id1 \in {"p1", "p2"}, id2 \in {"p1", "p2"}}
    \cup {CompareRequest("", "p1", "p2"),
          CompareRequest("service1", "", "p2"),
          CompareRequest("service1", "p1", ""),
          CompareRequest("service1", "pX", "p1"),
          CompareRequest("service1", "p1", "pX")}

\* strings.TrimSpace on the service and user ids of the model
TrimSpace(s) == IF s = " " THEN "" ELSE s

\* the match_all search on "questions", decoded into a map keyed by q.ID;
\* hits with an empty id are dropped
FetchQuestions(index) ==
    LET ids == {index.m[d].ID : d \in MapKeys(index)} \ {""} IN
    [isNil |-> FALSE,
     m |-> [id \in ids |-> index.m[CHOOSE d \in MapKeys(index) : index.m[d].ID = id]]]

\* an HTTP response without a comparison report in its body
Respond(handler, status) == [handler |-> handler, status |-> status, report |-> ZeroReport]

\* POST /admin/questions
CreateQuestionHandler ==
    /\ pc = "idle"
    /\ created < Len(QuestionUUIDs)
    /\ \E sec \in {"", "s1"}, esOK \in BOOLEAN :
          IF esOK
          THEN LET id == QuestionUUIDs[created + 1] IN
               /\ questions' = MapPut(questions, id, Question(id, sec, "Question Text"))
               /\ created' = created + 1
               /\ response' = Respond("createQuestion", 201)
          ELSE /\ response' = Respond("createQuestion", 500)
               /\ UNCHANGED <<questions, created>>
    /\ UNCHANGED <<submissions, now, pc, scoreVars, cmpVars, svcVars>>

\* DELETE /admin/questions?id=
DeleteQuestionHandler ==
    /\ pc = "idle"
    /\ \E id \in {""} \cup MapKeys(questions) \cup {"qX"}, esOK \in BOOLEAN :
          IF id = ""
          THEN /\ response' = Respond("deleteQuestion", 400)
               /\ UNCHANGED questions
          ELSE IF ~esOK
          THEN /\ response' = Respond("deleteQuestion", 500)
               /\ UNCHANGED questions
          ELSE /\ response' = Respond("deleteQuestion", 204)
               /\ questions' =
                     [isNil |-> FALSE,
                      m |-> [d \in MapKeys(questions) \ {id} |-> questions.m[d]]]
    /\ UNCHANGED <<created, submissions, now, pc, scoreVars, cmpVars, svcVars>>

\* PUT /admin/questions: every field of the stored document is replaced
UpdateQuestionHandler ==
    /\ pc = "idle"
    /\ \E id \in {""} \cup MapKeys(questions) \cup {"qX"},
          upd \in {<<"s2", "">>, <<"s1", "Question Text">>}, esOK \in BOOLEAN :
          IF id = ""
          THEN /\ response' = Respond("updateQuestion", 400)
               /\ UNCHANGED questions
          ELSE IF ~esOK
          THEN /\ response' = Respond("updateQuestion", 500)
               /\ UNCHANGED questions
          ELSE IF ~MapHas(questions, id)
          THEN /\ response' = Respond("updateQuestion", 404)
               /\ UNCHANGED questions
          ELSE /\ response' = Respond("updateQuestion", 200)
               /\ questions' = MapPut(questions, id, Question(id, upd[1], upd[2]))
    /\ UNCHANGED <<created, submissions, now, pc, scoreVars, cmpVars, svcVars>>

\* variant: the document is indexed under the id of its service
IndexSubmission_KeyedByService(index, submission) ==
    MapPut(index, submission.ServiceID, submission)

\* the IndexRequest on "prr_submissions", DocumentID: submission.ID
IndexSubmission(index, submission) == MapPut(index, submission.ID, submission)

\* POST /prr
SubmitPRRHandler ==
    /\ pc = "idle"
    /\ \E req \in SubmitRequests :
          IF \/ TrimSpace(req.ServiceID) = ""
             \/ TrimSpace(req.UserID) = ""
             \/ Len(req.Answers) = 0
          THEN /\ response' = Respond("submitPRR", 400)
               /\ UNCHANGED <<submissions, now>>
          ELSE \E tick \in {0, 1}, esOK \in BOOLEAN :
               IF ~esOK
               THEN /\ response' = Respond("submitPRR", 500)
                    /\ UNCHANGED <<submissions, now>>
               ELSE LET n == Cardinality(MapKeys(submissions))
                        qm == FetchQuestions(questions)
                        submission ==
                            PRRSubmission(SubmissionUUIDs[n + 1], req.ServiceID,
                                          req.UserID, now + tick, req.Answers,
                                          ScoreAnswers(MakeMap, req.Answers, qm))
                    IN  /\ n < Len(SubmissionUUIDs)
                        /\ now' = now + tick
                        /\ submissions' = IndexSubmission(submissions, submission)
                        /\ response' = Respond("submitPRR", 201)
    /\ UNCHANGED <<questions, created, pc, scoreVars, cmpVars, svcVars>>

\* GET /prr/history?service_id=: a term search on "prr_submissions"; the hits
\* are encoded into the response body, nothing is stored
ListPRRSubmissionsForServiceHandler ==
    /\ pc = "idle"
    /\ \E svc \in {"", "service1"}, esOK \in BOOLEAN :
          IF svc = "" THEN response' = Respond("history", 400)
          ELSE IF ~esOK THEN response' = Respond("history", 500)
          ELSE response' = Respond("history", 200)
    /\ UNCHANGED <<questions, created, submissions, now, pc, scoreVars, cmpVars, svcVars>>

\* GET /prr?id=: a GetRequest on "prr_submissions"
GetPRRSubmissionHandler ==
    /\ pc = "idle"
    /\ \E id \in {"", "p1", "pX"}, esOK \in BOOLEAN :
          IF id = "" THEN response' = Respond("getPRR", 400)
          ELSE IF ~esOK THEN response' = Respond("getPRR", 500)
          ELSE IF ~MapHas(submissions, id) THEN response' = Respond("getPRR", 404)
          ELSE response' = Respond("getPRR", 200)
    /\ UNCHANGED <<questions, created, submissions, now, pc, scoreVars, cmpVars, svcVars>>

\* GET /search/services?q=: a search on "services", then for every service
\* found a search for its latest document on "prr_submissions"
SearchServicesHandler ==
    /\ pc = "idle"
    /\ \E q \in {" ", "service1"}, esOK \in BOOLEAN :
          IF TrimSpace(q) = "" THEN response' = Respond("search", 400)
          ELSE IF ~esOK THEN response' = Respond("search", 500)
          ELSE response' = Respond("search", 200)
    /\ UNCHANGED <<questions, created, submissions, now, pc, scoreVars, cmpVars, svcVars>>

\* the comparison built inline by comparePRRSubmissionsHandler
HandlerOldLoopBody(rep, qID, oldMap, newMap, allQ) ==
    LET questionText == IF MapHas(allQ, qID) THEN allQ.m[qID].Text ELSE ""
        oldResp == oldMap.m[qID]
    IN  IF MapHas(newMap, qID)
        THEN IF oldResp # newMap.m[qID]
             THEN [rep EXCEPT !.AnswerChanges =
                      SliceAppend(@, AnswerChangeDetail(qID, questionText, oldResp, newMap.m[qID]))]
             ELSE rep
        ELSE [rep EXCEPT !.NoLongerAnsweredQuestions =
                 SliceAppend(@, AnswerChangeDetail(qID, questionText, oldResp, EmptyString))]

HandlerNewLoopBody(rep, qID, oldMap, newMap, allQ) ==
    LET questionText == IF MapHas(allQ, qID) THEN allQ.m[qID].Text ELSE ""
        newResp == newMap.m[qID]
    IN  IF ~MapHas(oldMap, qID)
        THEN [rep EXCEPT !.NewlyAnsweredQuestions =
                 SliceAppend(@, AnswerChangeDetail(qID, questionText, EmptyString, newResp))]
        ELSE rep

RECURSIVE HandlerOldLoop(_, _, _, _, _)
HandlerOldLoop(rep, ord, oldMap, newMap, allQ) ==
    IF ord = <<>> THEN rep
    ELSE HandlerOldLoop(HandlerOldLoopBody(rep, Head(ord), oldMap, newMap, allQ),
                        Tail(ord), oldMap, newMap, allQ)

RECURSIVE HandlerNewLoop(_, _, _, _, _)
HandlerNewLoop(rep, ord, oldMap, newMap, allQ) ==
    IF ord = <<>> THEN rep
    ELSE HandlerNewLoop(HandlerNewLoopBody(rep, Head(ord), oldMap, newMap, allQ),
                        Tail(ord), oldMap, newMap, allQ)

\* the report literal of the handler: the three slices are left at their zero value
HandlerNewReport(old, new, svc) ==
    [ServiceID |-> svc,
     PRRSubmissionIDOld |-> old.ID,
     PRRSubmissionIDNew |-> new.ID,
     SectionComparison |-> MakeMap,
     AnswerChanges |-> NilSlice,
     NewlyAnsweredQuestions |-> NilSlice,
     NoLongerAnsweredQuestions |-> NilSlice]

\* variant: the sections are collected from the old submission only
HandlerSectionComparison_OldSectionsOnly(old, new) ==
    [isNil |-> FALSE,
     m |-> [secID \in MapKeys(old.SectionScores) |->
              [OldScores |-> ScoreLookup(old.SectionScores, secID),
               NewScores |-> ScoreLookup(new.SectionScores, secID)]]]

HandlerSectionComparison(old, new) ==
    LET allSectionIDs == MapKeys(old.SectionScores) \cup MapKeys(new.SectionScores) IN
    [isNil |-> FALSE,
     m |-> [secID \in allSectionIDs |->
              [OldScores |-> ScoreLookup(old.SectionScores, secID),
               NewScores |-> ScoreLookup(new.SectionScores, secID)]]]

HandlerReport(old, new, allQ, svc, ordOld, ordNew) ==
    LET r0 == [HandlerNewReport(old, new, svc) EXCEPT
                  !.SectionComparison = HandlerSectionComparison(old, new)]
        oldAnswersMap == AnswersMap(old.Answers)
        newAnswersMap == AnswersMap(new.Answers)
        r1 == HandlerOldLoop(r0, ordOld, oldAnswersMap, newAnswersMap, allQ)
    IN  HandlerNewLoop(r1, ordNew, oldAnswersMap, newAnswersMap, allQ)

\* variant: the test is After instead of Before
Before_After(t, u) == t > u

\* time.Time.Before
Before(t, u) == t < u

\* sub1.Timestamp.Before(sub2.Timestamp) decides which submission is the old one
OldOf(sub1, sub2) == IF Before(sub1.Timestamp, sub2.Timestamp) THEN sub1 ELSE sub2
NewOf(sub1, sub2) == IF Before(sub1.Timestamp, sub2.Timestamp) THEN sub2 ELSE sub1

\* variant: only the first submission is checked against service_id
BelongToService_FirstOnly(sub1, sub2, svc) == sub1.ServiceID = svc

\* both submissions belong to the service of the request
BelongToService(sub1, sub2, svc) == sub1.ServiceID = svc /\ sub2.ServiceID = svc

\* GET /prr/compare
ComparePRRSubmissionsHandler ==
    /\ pc = "idle"
    /\ \E req \in CompareRequests :
          IF \/ req.service_id = "" \/ req.prr_id1 = "" \/ req.prr_id2 = ""
             \/ req.prr_id1 = req.prr_id2
          THEN response' = Respond("compare", 400)
          ELSE IF ~MapHas(submissions, req.prr_id1) \/ ~MapHas(submissions, req.prr_id2)
          THEN response' = Respond("compare", 404)
          ELSE LET sub1 == submissions.m[req.prr_id1]
                   sub2 == submissions.m[req.prr_id2]
               IN  IF ~BelongToService(sub1, sub2, req.service_id)
                   THEN response' = Respond("compare", 400)
                   ELSE \E esOK \in BOOLEAN :
                        IF ~esOK
                        THEN response' = Respond("compare", 500)
                        ELSE LET old == OldOf(sub1, sub2)
                                 new == NewOf(sub1, sub2)
                                 allQ == FetchQuestions(questions)
                             IN  \E ordOld \in Orderings(MapKeys(AnswersMap(old.Answers))),
                                    ordNew \in Orderings(MapKeys(AnswersMap(new.Answers))) :
                                    response' =
                                        [handler |-> "compare", status |-> 200,
                                         report |-> HandlerReport(old, new, allQ,
                                                        req.service_id, ordOld, ordNew)]
    /\ UNCHANGED <<questions, created, submissions, now, pc, scoreVars, cmpVars, svcVars>>

Init ==
    /\ SysIdle
    /\ ScoreIdle
    /\ CmpIdle
    /\ SvcIdle
    /\ pc = "idle"

Next ==
    \/ CreateQuestionHandler
    \/ UpdateQuestionHandler
    \/ DeleteQuestionHandler
    \/ SubmitPRRHandler
    \/ ListPRRSubmissionsForServiceHandler
    \/ GetPRRSubmissionHandler
    \/ SearchServicesHandler
    \/ ComparePRRSubmissionsHandler

Spec == Init /\ [][Next]_vars

(***************************************************************************)
(* POST /services: findOrCreateServiceHandler.  The handler talks to the   *)
(* store twice, with a search by name and then an index request; a request *)
(* is a process of two steps, so that two requests can interleave.         *)
(* Service names are sequences of characters, as responses are.            *)
(***************************************************************************)
ServiceUUIDs == <<"v1", "v2">>

NamePlain == <<"s", "v", "c">>
NameQuoted == <<"a", "\"", "b">>
NameBlank == <<" ">>
ServiceNames == {NamePlain, NameQuoted, NameBlank}

\* strings.TrimSpace(name) == ""
IsBlank(name) == \A i \in 1..Len(name) : name[i] = " "

\* the query is built by fmt.Sprintf with "%s" inside a JSON string literal:
\* a name holding a double quote or a backslash does not give a JSON document
\* that the store can parse
QueryWellFormed(name) == \A i \in 1..Len(name) : name[i] \notin {"\"", "\\"}

\* the answers of the store to the search request: hits, an error response
\* (res.IsError(), logged and then read as a result without hits), or a
\* failure of the request or of the decoding of its body
SearchOutcomes == {"hits", "error", "failed"}

\* the documents the term query on name.keyword finds
ServiceHits(index, name, outcome) ==
    IF outcome = "error" \/ ~QueryWellFormed(name) THEN {}
    ELSE {d \in MapKeys(index) : index.m[d].Name = name}

SetRequest(r, rec) == svcReqs' = [svcReqs EXCEPT ![r] = rec]

\* request r: decode, validate, search the service by name; answer when the
\* request is rejected, the search fails or the service is found
FindOrCreateSearch(r) ==
    /\ pc = "services"
    /\ svcReqs[r].pc = "start"
    /\ \E name \in ServiceNames :
          IF IsBlank(name)
          THEN SetRequest(r, [NoServiceRequest EXCEPT
                                 !.pc = "done", !.name = name, !.status = 400])
          ELSE \E outcome \in SearchOutcomes :
               IF outcome = "failed"
               THEN SetRequest(r, [NoServiceRequest EXCEPT
                                      !.pc = "done", !.name = name,
                                      !.search = outcome, !.status = 500])
               ELSE LET hits == ServiceHits(services, name, outcome) IN
                    IF hits # {}
                    THEN \E d \in hits :
                            SetRequest(r, [pc |-> "done", name |-> name,
                                           search |-> outcome, status |-> 200,
                                           service |-> services.m[d]])
                    ELSE SetRequest(r, [NoServiceRequest EXCEPT
                                           !.pc = "create", !.name = name,
                                           !.search = outcome])
    /\ UNCHANGED <<services, pc, sysVars, scoreVars, cmpVars>>

\* request r: the service was not found, index a new one
FindOrCreateIndex(r) ==
    /\ pc = "services"
    /\ svcReqs[r].pc = "create"
    /\ \E esOK \in BOOLEAN :
          IF ~esOK
          THEN /\ SetRequest(r, [svcReqs[r] EXCEPT !.pc = "done", !.status = 500])
               /\ UNCHANGED services
          ELSE LET n == Cardinality(MapKeys(services))
                   service == Service(ServiceUUIDs[n + 1], svcReqs[r].name)
               IN  /\ n < Len(ServiceUUIDs)
                   /\ services' = MapPut(services, service.ID, service)
                   /\ SetRequest(r, [svcReqs[r] EXCEPT
                                         !.pc = "done", !.status = 201,
                                         !.service = service])
    /\ UNCHANGED <<pc, sysVars, scoreVars, cmpVars>>

InitServices ==
    /\ SysIdle
    /\ ScoreIdle
    /\ CmpIdle
    /\ SvcIdle
    /\ pc = "services"

\* no request is between its search and its index request
NoRequestInFlight == \A r \in ServiceRequests : svcReqs[r].pc # "create"

\* SpecServices: the requests are handled one after the other
FindOrCreateServiceHandlerBegin == \E r \in ServiceRequests : NoRequestInFlight /\ FindOrCreateSearch(r)
FindOrCreateServiceHandlerEnd == \E r \in ServiceRequests : FindOrCreateIndex(r)

NextServices ==
    \/ FindOrCreateServiceHandlerBegin
    \/ FindOrCreateServiceHandlerEnd

SpecServices == InitServices /\ [][NextServices]_vars

\* SpecServicesRace: the handler runs in a goroutine per request, the steps of
\* two requests interleave freely
NextServicesRace ==
    \E r \in ServiceRequests :
        \/ FindOrCreateSearch(r)
        \/ FindOrCreateIndex(r)

SpecServicesRace == InitServices /\ [][NextServicesRace]_vars

(***************************************************************************)
(* Properties of the scoring loop (SpecScore).                             *)
(***************************************************************************)
\* the range loop over the answers has run to its end
Scored == pc = "scoring" /\ idx > Len(answers)

SameLetter(c, d) ==
    \/ c = d
    \/ \E i \in 1..Len(UpperChars) : {c, d} = {UpperChars[i], LowerChars[i]}

\* a and b are equal when compared case-insensitively
EqualFold(a, b) == Len(a) = Len(b) /\ \A i \in 1..Len(a) : SameLetter(a[i], b[i])

KnownQuestion(i) == answers[i].QuestionID \in DOMAIN questionsMap.m
SectionOfAnswer(i) == questionsMap.m[answers[i].QuestionID].SectionID
Canonical(resp) ==
    EqualFold(resp, LitYes) \/ EqualFold(resp, LitNo) \/ EqualFold(resp, LitNA)

\* the number of answers whose question is in the catalog with section sec
\* and whose response is lit, compared case-insensitively
AnswersWith(sec, lit) ==
    Cardinality({i \in 1..Len(answers) :
                   /\ KnownQuestion(i)
                   /\ SectionOfAnswer(i) = sec
                   /\ EqualFold(answers[i].Response, lit)})

\* C1: after scoring, the three counts of every section in the score map equal
\* the number of answers of the submission whose question is in the catalog
\* with that section id and whose response is "yes", "no" or "n/a" when
\* compared case-insensitively.
C1_CountsMatchAnswers ==
    Scored =>
        \A sec \in MapKeys(sectionScores) :
            /\ sectionScores.m[sec].YesCount = AnswersWith(sec, LitYes)
            /\ sectionScores.m[sec].NoCount = AnswersWith(sec, LitNo)
            /\ sectionScores.m[sec].NaCount = AnswersWith(sec, LitNA)

\* a section that received a "Yes"/"yes" and a "NO"
C1_Witness ==
    /\ Scored
    /\ \E sec \in MapKeys(sectionScores) :
          /\ sectionScores.m[sec].YesCount = 1
          /\ sectionScores.m[sec].NoCount = 1
          /\ \E i \in 1..Len(answers) : answers[i].Response = StrNoUpper

RECURSIVE SumOver(_, _)
SumOver(scores, secs) ==
    IF secs = {} THEN 0
    ELSE LET sec == CHOOSE x \in secs : TRUE IN
         scores[sec].YesCount + scores[sec].NoCount + scores[sec].NaCount
           + SumOver(scores, secs \ {sec})

TotalCount == SumOver(sectionScores.m, MapKeys(sectionScores))

EveryAnswerCounts ==
    \A i \in 1..Len(answers) :
        /\ KnownQuestion(i)
        /\ SectionOfAnswer(i) # ""
        /\ Canonical(answers[i].Response)

\* C5: the sum of yes+no+na over all sections of the scoring result is at most
\* the number of answers, and equals it exactly when every answer references a
\* question of the catalog with a non-empty section id and has a response that
\* is case-insensitively "yes", "no" or "n/a".
C5_TotalAtMostAnswers ==
    Scored =>
        /\ TotalCount <= Len(answers)
        /\ (TotalCount = Len(answers)) <=> EveryAnswerCounts

\* two answers, both counted
C5_Witness ==
    /\ Scored
    /\ Len(answers) = 2
    /\ TotalCount = 2
    /\ Cardinality(MapKeys(sectionScores)) = 2

UnknownAt(i) == i \in 1..Len(answers) /\ ~KnownQuestion(i)

\* C10: the loop step for an answer whose question id is not in the catalog
\* leaves the score map as it is (no tally changes, no entry is created) and
\* moves on to the next answer; when every answer references an unknown
\* question the resulting score map is empty.
C10_UnknownQuestionSkipped ==
    /\ [][(pc = "scoring" /\ UnknownAt(idx)) =>
            (sectionScores' = sectionScores /\ idx' = idx + 1 /\ pc' = "scoring")]_vars
    /\ []((Scored /\ \A i \in 1..Len(answers) : UnknownAt(i)) =>
            MapKeys(sectionScores) = {})

\* an unknown question was skipped and the answer after it was tallied
C10_Witness ==
    /\ Scored
    /\ Len(answers) = 2
    /\ UnknownAt(1)
    /\ ~UnknownAt(2)
    /\ TotalCount = 1

\* the answer at position i is to a known question with a section, and its
\* response is none of "yes", "no", "n/a" in any letter case
UnrecognizedAt(i) ==
    /\ i \in 1..Len(answers)
    /\ KnownQuestion(i)
    /\ SectionOfAnswer(i) # ""
    /\ ~Canonical(answers[i].Response)

Counts(score) == <<score.YesCount, score.NoCount, score.NaCount>>

AnswersIn(sec) == {i \in 1..Len(answers) : KnownQuestion(i) /\ SectionOfAnswer(i) = sec}

\* C11: the loop step for an answer to a known question with a non-empty
\* section whose response is not case-insensitively "yes", "no" or "n/a"
\* increments none of the three counters of any section and moves on to the
\* next answer; a section whose only answers are unrecognized ends with the
\* tally yes=0, no=0, na=0.
C11_UnrecognizedIgnored ==
    /\ [][(pc = "scoring" /\ UnrecognizedAt(idx)) =>
            LET sec == SectionOfAnswer(idx) IN
            /\ idx' = idx + 1
            /\ pc' = "scoring"
            /\ MapKeys(sectionScores') = MapKeys(sectionScores) \cup {sec}
            /\ Counts(sectionScores'.m[sec]) =
                  (IF MapHas(sectionScores, sec) THEN Counts(sectionScores.m[sec])
                   ELSE <<0, 0, 0>>)
            /\ \A s \in MapKeys(sectionScores) \ {sec} :
                  sectionScores'.m[s] = sectionScores.m[s]]_vars
    /\ [](Scored =>
            \A sec \in SectionIDs :
               (AnswersIn(sec) # {} /\ \A i \in AnswersIn(sec) : UnrecognizedAt(i)) =>
                  /\ MapHas(sectionScores, sec)
                  /\ Counts(sectionScores.m[sec]) = <<0, 0, 0>>)

\* "Maybe" for one section came first, the answer after it was tallied
C11_Witness ==
    /\ Scored
    /\ Len(answers) = 2
    /\ UnrecognizedAt(1)
    /\ answers[1].Response = StrMaybe
    /\ TotalCount = 1
    /\ \E sec \in MapKeys(sectionScores) : Counts(sectionScores.m[sec]) = <<0, 0, 0>>

\* the answers in the order given by the permutation perm of their positions
Permuted(ans, perm) == [i \in 1..Len(ans) |-> ans[perm[i]]]

\* C12: for a fixed catalog, scoring any permutation of the answer sequence
\* (the sequence itself included, so scoring it a second time) yields the same
\* section score map as the one the loop has produced.
C12_OrderIndependent ==
    Scored =>
        \A perm \in Orderings(1..Len(answers)) :
            ScoreAnswers(MakeMap, Permuted(answers, perm), questionsMap) = sectionScores

\* two different answers tallied in the same section
C12_Witness ==
    /\ Scored
    /\ Len(answers) = 2
    /\ answers[1].Response # answers[2].Response
    /\ KnownQuestion(1)
    /\ KnownQuestion(2)
    /\ SectionOfAnswer(1) = SectionOfAnswer(2)
    /\ TotalCount = 2

\* the position of the last answer the submission lists for question q
LastAnswerTo(q) ==
    CHOOSE i \in 1..Len(answers) :
        /\ answers[i].QuestionID = q
        /\ \A j \in 1..Len(answers) : answers[j].QuestionID = q => j <= i

\* the number of distinct questions of section sec whose last-listed answer
\* has the response lit, compared case-insensitively
QuestionsWith(sec, lit) ==
    Cardinality({q \in MapKeys(questionsMap) :
                   /\ questionsMap.m[q].SectionID = sec
                   /\ \E i \in 1..Len(answers) : answers[i].QuestionID = q
                   /\ EqualFold(answers[LastAnswerTo(q)].Response, lit)})

\* C13: when a submission holds several answers for the same question id,
\* only the last one counts: every distinct question id contributes at most 1
\* to the tally of its section, for the response of its last-listed answer.
C13_LastAnswerCounts ==
    Scored =>
        \A sec \in MapKeys(sectionScores) :
            /\ sectionScores.m[sec].YesCount = QuestionsWith(sec, LitYes)
            /\ sectionScores.m[sec].NoCount = QuestionsWith(sec, LitNo)
            /\ sectionScores.m[sec].NaCount = QuestionsWith(sec, LitNA)

\* the answer at position i is to a question of the catalog that has an
\* empty section id
EmptySectionAt(i) ==
    /\ i \in 1..Len(answers)
    /\ KnownQuestion(i)
    /\ SectionOfAnswer(i) = ""

\* C23: the loop step for an answer whose question is in the catalog with an
\* empty section id changes no tally and creates no entry, and the loop goes
\* on with the next answer; the score map never has an entry under the empty
\* string.
C23_EmptySectionSkipped ==
    /\ [][(pc = "scoring" /\ EmptySectionAt(idx)) =>
            (sectionScores' = sectionScores /\ idx' = idx + 1 /\ pc' = "scoring")]_vars
    /\ [](~MapHas(sectionScores, ""))

\* a question without section was skipped, the answer after it was tallied
C23_Witness ==
    /\ Scored
    /\ Len(answers) = 2
    /\ EmptySectionAt(1)
    /\ Canonical(answers[1].Response)
    /\ ~EmptySectionAt(2)
    /\ TotalCount = 1
    /\ MapKeys(sectionScores) # {}

\* the answer list holds at most one answer per question id
OneAnswerPerQuestion(ans) ==
    \A i, j \in 1..Len(ans) : ans[i].QuestionID = ans[j].QuestionID => i = j

\* every answer list with at most one answer per question id
DistinctAnswerLists ==
    {b \in UNION {[1..n -> {Answer(q, r) : q \in QIDs, r \in ScoreResponses}] :
                     n \in 0..Cardinality(QIDs)} : OneAnswerPerQuestion(b)}

\* the submission the loop has scored, and a second submission with the
\* answers b scored against the same catalog
ScoredSubmission == PRRSubmission("p1", "service1", "user1", 0, answers, sectionScores)
SubmissionOf(b) ==
    PRRSubmission("p2", "service1", "user1", 1, b, ScoreAnswers(MakeMap, b, questionsMap))

\* the reports generateComparisonReport can return for old and new
ReportsOf(old, new) ==
    {generateComparisonReport(old, new, questionsMap, "service1", ordOld, ordNew) :
        ordOld \in Orderings(MapKeys(AnswersMap(old.Answers))),
        ordNew \in Orderings(MapKeys(AnswersMap(new.Answers)))}

NoDifferences(rep) ==
    /\ rep.AnswerChanges.elems = <<>>
    /\ rep.NewlyAnsweredQuestions.elems = <<>>
    /\ rep.NoLongerAnsweredQuestions.elems = <<>>

SameCounts(rep) ==
    \A sec \in MapKeys(rep.SectionComparison) :
        Counts(rep.SectionComparison.m[sec].OldScores)
            = Counts(rep.SectionComparison.m[sec].NewScores)

\* C28: for two submissions scored by the loop against the same catalog, each
\* with at most one answer per question id, compared in either direction: a
\* report whose AnswerChanges, NewlyAnsweredQuestions and
\* NoLongerAnsweredQuestions are all empty has, in every SectionComparison
\* entry, old yes/no/na counts equal to the new ones.
C28_NoDifferencesSameCounts ==
    (Scored /\ OneAnswerPerQuestion(answers)) =>
        \A b \in DistinctAnswerLists :
            \A rep \in ReportsOf(ScoredSubmission, SubmissionOf(b))
                          \cup ReportsOf(SubmissionOf(b), ScoredSubmission) :
                NoDifferences(rep) => SameCounts(rep)

\* two questions of one section answered differently, and the same two answers
\* in the other order compare without differences
C28_Witness ==
    /\ Scored
    /\ Len(answers) = 2
    /\ OneAnswerPerQuestion(answers)
    /\ answers[1].Response = StrYes
    /\ answers[2].Response = StrNoUpper
    /\ \E rep \in ReportsOf(ScoredSubmission, SubmissionOf(<<answers[2], answers[1]>>)) :
          /\ NoDifferences(rep)
          /\ \E sec \in MapKeys(rep.SectionComparison) :
                Counts(rep.SectionComparison.m[sec].NewScores) = <<1, 1, 0>>

(***************************************************************************)
(* Properties of generateComparisonReport (SpecCompare).                   *)
(***************************************************************************)
\* generateComparisonReport has returned
Compared == pc = "compared"

\* the submission holds an answer for question q
AnsweredIn(sub, q) == \E i \in 1..Len(sub.Answers) : sub.Answers[i].QuestionID = q

\* the response of the last answer the submission lists for question q
LastResponse(sub, q) ==
    LET last == CHOOSE i \in 1..Len(sub.Answers) :
                   /\ sub.Answers[i].QuestionID = q
                   /\ \A j \in 1..Len(sub.Answers) :
                         sub.Answers[j].QuestionID = q => j <= i
    IN  sub.Answers[last].Response

AnsweredQuestions(sub) == {sub.Answers[i].QuestionID : i \in 1..Len(sub.Answers)}

Entries(slice) == {slice.elems[i] : i \in 1..Len(slice.elems)}
EntryIDs(slice) == {e.QuestionID : e \in Entries(slice)}

InChanges(rep, q) == q \in EntryIDs(rep.AnswerChanges)
InNoLonger(rep, q) == q \in EntryIDs(rep.NoLongerAnsweredQuestions)
InNewly(rep, q) == q \in EntryIDs(rep.NewlyAnsweredQuestions)

CollectionsHolding(rep, q) ==
    (IF InChanges(rep, q) THEN 1 ELSE 0) + (IF InNoLonger(rep, q) THEN 1 ELSE 0)
      + (IF InNewly(rep, q) THEN 1 ELSE 0)

AnsweredIdentically(old, new, q) ==
    /\ AnsweredIn(old, q)
    /\ AnsweredIn(new, q)
    /\ LastResponse(old, q) = LastResponse(new, q)

\* C2: every question id answered in the old or the new submission is in exactly
\* one of AnswerChanges, NoLongerAnsweredQuestions and NewlyAnsweredQuestions,
\* or in none of them when it is answered identically in both; no question id
\* is in more than one of the three collections.
C2_Partition ==
    Compared =>
        /\ \A q \in AnsweredQuestions(oldPRR) \cup AnsweredQuestions(newPRR) :
              CollectionsHolding(report, q) =
                 IF AnsweredIdentically(oldPRR, newPRR, q) THEN 0 ELSE 1
        /\ \A q \in EntryIDs(report.AnswerChanges)
                      \cup EntryIDs(report.NoLongerAnsweredQuestions)
                      \cup EntryIDs(report.NewlyAnsweredQuestions) :
              CollectionsHolding(report, q) = 1

\* one question changed, the other newly answered
C2_Witness ==
    /\ Compared
    /\ Len(report.AnswerChanges.elems) = 1
    /\ Len(report.NewlyAnsweredQuestions.elems) = 1
    /\ Len(report.NoLongerAnsweredQuestions.elems) = 0

\* C4: the keys of the report's SectionComparison are exactly the section ids
\* that are a key of the old or of the new submission's SectionScores, also
\* when a score map is empty or nil.
C4_SectionUnion ==
    Compared =>
        /\ ~report.SectionComparison.isNil
        /\ \A sec \in SectionIDs \cup MapKeys(report.SectionComparison) :
              sec \in MapKeys(report.SectionComparison)
                <=> (sec \in DOMAIN oldPRR.SectionScores.m
                       \/ sec \in DOMAIN newPRR.SectionScores.m)

\* the old submission has no score map at all, the new one has both sections
C4_Witness ==
    /\ Compared
    /\ oldPRR.SectionScores.isNil
    /\ MapKeys(newPRR.SectionScores) = {"s1", "s2"}
    /\ MapKeys(report.SectionComparison) = {"s1", "s2"}

\* C6: a question id has an entry in AnswerChanges exactly when it is answered
\* in both submissions and the two responses differ as stored (so "Yes" and
\* "yes" differ); the entry carries the old and the new response.
C6_AnswerChanges ==
    Compared =>
        /\ \A q \in QIDs :
              InChanges(report, q) <=>
                 /\ AnsweredIn(oldPRR, q)
                 /\ AnsweredIn(newPRR, q)
                 /\ LastResponse(oldPRR, q) # LastResponse(newPRR, q)
        /\ \A e \in Entries(report.AnswerChanges) :
              /\ e.OldAnswer = LastResponse(oldPRR, e.QuestionID)
              /\ e.NewAnswer = LastResponse(newPRR, e.QuestionID)

\* "Yes" became "yes"
C6_Witness ==
    /\ Compared
    /\ \E e \in Entries(report.AnswerChanges) :
          e.OldAnswer = StrYes /\ e.NewAnswer = StrYesLower

\* C7: a question id has an entry in NoLongerAnsweredQuestions exactly when it
\* is answered in the old submission and not in the new one; the entry carries
\* the old response and an empty NewAnswer.
C7_NoLongerAnswered ==
    Compared =>
        /\ \A q \in QIDs :
              InNoLonger(report, q) <=> (AnsweredIn(oldPRR, q) /\ ~AnsweredIn(newPRR, q))
        /\ \A e \in Entries(report.NoLongerAnsweredQuestions) :
              /\ e.OldAnswer = LastResponse(oldPRR, e.QuestionID)
              /\ e.NewAnswer = EmptyString

\* one question dropped, the other answered identically in both
C7_Witness ==
    /\ Compared
    /\ Len(report.NoLongerAnsweredQuestions.elems) = 1
    /\ \E q \in QIDs : AnsweredIdentically(oldPRR, newPRR, q)

\* C8: a question id has an entry in NewlyAnsweredQuestions exactly when it is
\* answered in the new submission and not in the old one; the entry carries an
\* empty OldAnswer and the new response.
C8_NewlyAnswered ==
    Compared =>
        /\ \A q \in QIDs :
              InNewly(report, q) <=> (AnsweredIn(newPRR, q) /\ ~AnsweredIn(oldPRR, q))
        /\ \A e \in Entries(report.NewlyAnsweredQuestions) :
              /\ e.OldAnswer = EmptyString
              /\ e.NewAnswer = LastResponse(newPRR, e.QuestionID)

\* both questions are newly answered
C8_Witness ==
    /\ Compared
    /\ Len(report.NewlyAnsweredQuestions.elems) = 2
    /\ oldPRR.Answers = <<>>

\* the submission lists question q more than once
ListedTwice(sub, q) ==
    \E i, j \in 1..Len(sub.Answers) :
        i # j /\ sub.Answers[i].QuestionID = q /\ sub.Answers[j].QuestionID = q

OneEntryPerQuestion(slice) == Len(slice.elems) = Cardinality(EntryIDs(slice))

AllEntries(rep) ==
    Entries(rep.AnswerChanges) \cup Entries(rep.NoLongerAnsweredQuestions)
      \cup Entries(rep.NewlyAnsweredQuestions)

\* C14: when a submission lists a question id more than once, the comparison
\* sees the response of the last-listed answer for that id: the entry of the
\* question carries it, and the question is reported as changed exactly when
\* the last responses of the two submissions differ; each of the three
\* collections holds at most one entry per question id.
C14_LastAnswerCompared ==
    Compared =>
        /\ OneEntryPerQuestion(report.AnswerChanges)
        /\ OneEntryPerQuestion(report.NoLongerAnsweredQuestions)
        /\ OneEntryPerQuestion(report.NewlyAnsweredQuestions)
        /\ \A q \in QIDs :
              (ListedTwice(oldPRR, q) \/ ListedTwice(newPRR, q)) =>
                 /\ \A e \in AllEntries(report) :
                       e.QuestionID = q =>
                          /\ AnsweredIn(oldPRR, q) => e.OldAnswer = LastResponse(oldPRR, q)
                          /\ AnsweredIn(newPRR, q) => e.NewAnswer = LastResponse(newPRR, q)
                 /\ (AnsweredIn(oldPRR, q) /\ AnsweredIn(newPRR, q)) =>
                       (InChanges(report, q)
                          <=> LastResponse(oldPRR, q) # LastResponse(newPRR, q))

\* the old submission answers q1 twice, first as the new one does and then
\* differently: one change is reported
C14_Witness ==
    /\ Compared
    /\ Len(oldPRR.Answers) = 2
    /\ ListedTwice(oldPRR, "q1")
    /\ AnsweredIn(newPRR, "q1")
    /\ oldPRR.Answers[1].Response = LastResponse(newPRR, "q1")
    /\ oldPRR.Answers[2].Response # LastResponse(newPRR, "q1")
    /\ Len(report.AnswerChanges.elems) = 1

\* score is the tally the score map stores for sec, or has three zero counts
\* when the map has no tally for sec
StoredTallyOrZero(score, scores, sec) ==
    IF sec \in DOMAIN scores.m THEN score = scores.m[sec]
    ELSE /\ score.YesCount = 0
         /\ score.NoCount = 0
         /\ score.NaCount = 0

\* C15: for every section id of the report, OldScores is the tally the old
\* submission stores for that id and NewScores the tally the new submission
\* stores for it; on a side without a tally for the id the three counts are
\* all zero.
C15_StoredTallies ==
    Compared =>
        \A sec \in MapKeys(report.SectionComparison) :
            /\ StoredTallyOrZero(report.SectionComparison.m[sec].OldScores,
                                 oldPRR.SectionScores, sec)
            /\ StoredTallyOrZero(report.SectionComparison.m[sec].NewScores,
                                 newPRR.SectionScores, sec)

\* s1 is scored by both submissions, s2 by the new one only
C15_Witness ==
    /\ Compared
    /\ MapKeys(oldPRR.SectionScores) = {"s1"}
    /\ MapKeys(newPRR.SectionScores) = {"s1", "s2"}
    /\ report.SectionComparison.m["s1"].OldScores.YesCount = 1
    /\ report.SectionComparison.m["s1"].NewScores.NoCount = 2
    /\ report.SectionComparison.m["s2"].OldScores.YesCount = 0
    /\ report.SectionComparison.m["s2"].NewScores.NoCount = 2

\* every tally of the score map is stored under its own section id
KeyedBySection(scores) == \A k \in MapKeys(scores) : scores.m[k].SectionID = k

\* C16: for submissions whose score maps store every SectionScore under its
\* own SectionID, both OldScores.SectionID and NewScores.SectionID of every
\* SectionComparison entry equal the entry's key, also when only one of the
\* two submissions has the section.
C16_SameSectionID ==
    (/\ Compared
     /\ KeyedBySection(oldPRR.SectionScores)
     /\ KeyedBySection(newPRR.SectionScores)) =>
        \A sec \in MapKeys(report.SectionComparison) :
            /\ report.SectionComparison.m[sec].OldScores.SectionID = sec
            /\ report.SectionComparison.m[sec].NewScores.SectionID = sec

\* C16, amended: for such submissions, the SectionScore of a side whose
\* submission has a tally for the entry's key has SectionID equal to that key;
\* on a side whose submission has no tally for the key the SectionScore is the
\* zero value, with the empty string as SectionID.
C16_SectionIDOfStoredSide ==
    (/\ Compared
     /\ KeyedBySection(oldPRR.SectionScores)
     /\ KeyedBySection(newPRR.SectionScores)) =>
        \A sec \in MapKeys(report.SectionComparison) :
            /\ report.SectionComparison.m[sec].OldScores.SectionID =
                  (IF sec \in DOMAIN oldPRR.SectionScores.m THEN sec ELSE "")
            /\ report.SectionComparison.m[sec].NewScores.SectionID =
                  (IF sec \in DOMAIN newPRR.SectionScores.m THEN sec ELSE "")
            /\ sec \notin DOMAIN oldPRR.SectionScores.m =>
                  report.SectionComparison.m[sec].OldScores = ZeroSectionScore
            /\ sec \notin DOMAIN newPRR.SectionScores.m =>
                  report.SectionComparison.m[sec].NewScores = ZeroSectionScore

\* s1 is scored by the old submission only, s2 by the new one only
C16_Witness ==
    /\ Compared
    /\ MapKeys(oldPRR.SectionScores) = {"s1"}
    /\ MapKeys(newPRR.SectionScores) = {"s2"}
    /\ report.SectionComparison.m["s1"].OldScores.SectionID = "s1"
    /\ report.SectionComparison.m["s1"].NewScores.SectionID = ""
    /\ report.SectionComparison.m["s2"].OldScores.SectionID = ""

FirstPosition(sub, q) ==
    CHOOSE i \in 1..Len(sub.Answers) :
        /\ sub.Answers[i].QuestionID = q
        /\ \A j \in 1..Len(sub.Answers) : sub.Answers[j].QuestionID = q => i <= j

\* the entries of the collection follow the order of the submission's answers
InAnswerOrder(slice, sub) ==
    \A i, j \in 1..Len(slice.elems) :
        i < j => FirstPosition(sub, slice.elems[i].QuestionID)
                   < FirstPosition(sub, slice.elems[j].QuestionID)

\* C21: the entries of NewlyAnsweredQuestions follow the order in which their
\* question ids occur in the new submission's answer list, those of
\* AnswerChanges and of NoLongerAnsweredQuestions the order of the old
\* submission's answer list, so that the returned sequences are fixed.
C21_AnswerListOrder ==
    Compared =>
        /\ InAnswerOrder(report.NewlyAnsweredQuestions, newPRR)
        /\ InAnswerOrder(report.AnswerChanges, oldPRR)
        /\ InAnswerOrder(report.NoLongerAnsweredQuestions, oldPRR)

\* C24: every entry of the three collections has as QuestionText the Text of
\* its question in the catalog passed to the comparison, and the empty string
\* when the catalog has no such question; a question missing from the catalog
\* is reported like any other: in one collection, unless it is answered
\* identically in both submissions.
C24_QuestionText ==
    Compared =>
        /\ \A e \in AllEntries(report) :
              e.QuestionText =
                 (IF e.QuestionID \in DOMAIN allQuestions.m
                  THEN allQuestions.m[e.QuestionID].Text ELSE "")
        /\ \A q \in (AnsweredQuestions(oldPRR) \cup AnsweredQuestions(newPRR))
                      \ DOMAIN allQuestions.m :
              AnsweredIdentically(oldPRR, newPRR, q) <=> CollectionsHolding(report, q) = 0

\* a changed answer to a question missing from the catalog, and a newly
\* answered question of the catalog
C24_Witness ==
    /\ Compared
    /\ \E e \in Entries(report.AnswerChanges) :
          e.QuestionID \notin DOMAIN allQuestions.m /\ e.QuestionText = ""
    /\ \E e \in Entries(report.NewlyAnsweredQuestions) :
          e.QuestionID \in DOMAIN allQuestions.m /\ e.QuestionText = "Question Text"

\* the reports comparePRRSubmissionsHandler can build inline from the
\* arguments generateComparisonReport was called with
InlineReports ==
    {HandlerReport(oldPRR, newPRR, allQuestions, serviceID, ordOld, ordNew) :
        ordOld \in Orderings(MapKeys(AnswersMap(oldPRR.Answers))),
        ordNew \in Orderings(MapKeys(AnswersMap(newPRR.Answers)))}

\* C30: for the same old submission, new submission, catalog and service id,
\* every report the handler builds inline has the same SectionComparison map
\* and the same set of entries in each of AnswerChanges,
\* NewlyAnsweredQuestions and NoLongerAnsweredQuestions as the report
\* generateComparisonReport has returned.
C30_InlineReportAgrees ==
    Compared =>
        \A inline \in InlineReports :
            /\ inline.SectionComparison = report.SectionComparison
            /\ Entries(inline.AnswerChanges) = Entries(report.AnswerChanges)
            /\ Entries(inline.NewlyAnsweredQuestions) = Entries(report.NewlyAnsweredQuestions)
            /\ Entries(inline.NoLongerAnsweredQuestions)
                   = Entries(report.NoLongerAnsweredQuestions)

\* a changed and a newly answered question, a section tallied in the new
\* submission only, and an inline report that is not the returned one: its
\* empty collection is nil
C30_Witness ==
    /\ Compared
    /\ Entries(report.AnswerChanges) # {}
    /\ Entries(report.NewlyAnsweredQuestions) # {}
    /\ MapKeys(newPRR.SectionScores) \ MapKeys(oldPRR.SectionScores) # {}
    /\ \E inline \in InlineReports :
          /\ inline.NoLongerAnsweredQuestions = NilSlice
          /\ inline # report

\* the entry with OldAnswer and NewAnswer exchanged
SwapAnswers(e) == AnswerChangeDetail(e.QuestionID, e.QuestionText, e.NewAnswer, e.OldAnswer)

\* rep and mir are mirror images of each other
Mirrored(rep, mir) ==
    /\ Len(mir.AnswerChanges.elems) = Len(rep.AnswerChanges.elems)
    /\ Entries(mir.AnswerChanges) = {SwapAnswers(e) : e \in Entries(rep.AnswerChanges)}
    /\ Len(mir.NoLongerAnsweredQuestions.elems) = Len(rep.NewlyAnsweredQuestions.elems)
    /\ {<<e.QuestionID, e.OldAnswer>> : e \in Entries(mir.NoLongerAnsweredQuestions)}
         = {<<e.QuestionID, e.NewAnswer>> : e \in Entries(rep.NewlyAnsweredQuestions)}
    /\ Len(mir.NewlyAnsweredQuestions.elems) = Len(rep.NoLongerAnsweredQuestions.elems)
    /\ {<<e.QuestionID, e.NewAnswer>> : e \in Entries(mir.NewlyAnsweredQuestions)}
         = {<<e.QuestionID, e.OldAnswer>> : e \in Entries(rep.NoLongerAnsweredQuestions)}
    /\ MapKeys(mir.SectionComparison) = MapKeys(rep.SectionComparison)
    /\ \A sec \in MapKeys(rep.SectionComparison) :
          /\ mir.SectionComparison.m[sec].OldScores = rep.SectionComparison.m[sec].NewScores
          /\ mir.SectionComparison.m[sec].NewScores = rep.SectionComparison.m[sec].OldScores

\* C9: the report of (A, B) and every report of (B, A) are mirror images:
\* AnswerChanges with OldAnswer and NewAnswer swapped in each entry, the
\* NewlyAnsweredQuestions of one the NoLongerAnsweredQuestions of the other (as
\* sets of question ids with their responses), OldScores and NewScores
\* exchanged in every SectionComparison entry.
C9_Mirror ==
    Compared =>
        \A ordOld \in Orderings(MapKeys(AnswersMap(newPRR.Answers))),
           ordNew \in Orderings(MapKeys(AnswersMap(oldPRR.Answers))) :
            Mirrored(report,
                     generateComparisonReport(newPRR, oldPRR, allQuestions, serviceID,
                                              ordOld, ordNew))

\* a change, a dropped question and a section scored on one side only
C9_Witness ==
    /\ Compared
    /\ Len(report.AnswerChanges.elems) = 1
    /\ Len(report.NoLongerAnsweredQuestions.elems) = 1
    /\ MapKeys(oldPRR.SectionScores) = {"s1"}
    /\ MapKeys(newPRR.SectionScores) = {"s2"}

(***************************************************************************)
(* Properties of the reports handed to a caller (Spec, SpecCompare).       *)
(***************************************************************************)
\* the three collections of the report are present (not nil, not JSON null)
CollectionsPresent(rep) ==
    /\ ~rep.AnswerChanges.isNil
    /\ ~rep.NewlyAnsweredQuestions.isNil
    /\ ~rep.NoLongerAnsweredQuestions.isNil

\* GET /prr/compare has answered with a report
CompareAnswered == response.handler = "compare" /\ response.status = 200

(***************************************************************************)
(* Properties of the stored documents (Spec).                              *)
(***************************************************************************)
\* the question ids that an answer of a stored submission references
ReferencedQuestions ==
    UNION {AnsweredQuestions(submissions.m[p]) : p \in MapKeys(submissions)}

\* C18: once an answer of a stored submission references a question, no
\* operation changes the section id or the text of its catalog entry or
\* removes the entry: PUT and DELETE on /admin/questions leave it as it is.
C18_ReferencedQuestionImmutable ==
    [][\A q \in ReferencedQuestions \cap MapKeys(questions) :
          /\ MapHas(questions', q)
          /\ questions'.m[q] = questions.m[q]]_vars

\* C19: a stored submission keeps its Answers and its SectionScores through
\* every later operation: other submissions, question create, update and
\* delete, compare, history, get and search.
C19_StoredSubmissionImmutable ==
    [][\A p \in MapKeys(submissions) :
          /\ MapHas(submissions', p)
          /\ submissions'.m[p].Answers = submissions.m[p].Answers
          /\ submissions'.m[p].SectionScores = submissions.m[p].SectionScores]_vars

\* the catalog changed after p1 was stored, so that scoring its answers now
\* would give other tallies, and a comparison with p1 has been answered
C19_Witness ==
    /\ MapHas(submissions, "p1")
    /\ MapHas(submissions, "p2")
    /\ submissions.m["p1"].SectionScores #
          ScoreAnswers(MakeMap, submissions.m["p1"].Answers, FetchQuestions(questions))
    /\ response.handler = "compare"
    /\ response.status = 200

\* the stored submission that the report of the last response labels old / new
LabelledOld == submissions.m[response.report.PRRSubmissionIDOld]
LabelledNew == submissions.m[response.report.PRRSubmissionIDNew]

\* C20: whenever GET /prr/compare answers with a report, the two submissions
\* the report names are stored, they are two different submissions, and the
\* timestamp of the one labelled old is not later than the timestamp of the
\* one labelled new, whichever of them was passed as prr_id1.
C20_OldNotLater ==
    CompareAnswered =>
        /\ MapHas(submissions, response.report.PRRSubmissionIDOld)
        /\ MapHas(submissions, response.report.PRRSubmissionIDNew)
        /\ response.report.PRRSubmissionIDOld # response.report.PRRSubmissionIDNew
        /\ LabelledOld.Timestamp <= LabelledNew.Timestamp

\* two submissions of different times were compared
C20_Witness ==
    /\ CompareAnswered
    /\ response.report.PRRSubmissionIDOld = "p1"
    /\ response.report.PRRSubmissionIDNew = "p2"
    /\ LabelledOld.Timestamp < LabelledNew.Timestamp

(***************************************************************************)
(* Properties of the stored services (SpecServices, SpecServicesRace).     *)
(***************************************************************************)
ServicesNamed(name) == {d \in MapKeys(services) : services.m[d].Name = name}

\* request r has been answered with a service it created
Created(r) == svcReqs[r].pc = "done" /\ svcReqs[r].status = 201

\* C22: when the requests to POST /services are handled one after the other,
\* a request for a name that is already stored creates no new service: at
\* most one stored service has any given name, and a request is answered
\* with a newly created service only when no other stored service has its
\* name.
C22_OneServicePerName ==
    /\ \A name \in ServiceNames : Cardinality(ServicesNamed(name)) <= 1
    /\ \A r \in ServiceRequests :
          Created(r) => ServicesNamed(svcReqs[r].name) = {svcReqs[r].service.ID}

\* C29: at most one stored service has any given name also when the steps of
\* two requests for the same new name interleave, each request searching
\* before the other has indexed its service (every search being answered by
\* the store without an error, for a name that gives a well-formed query).
C29_OneServicePerNameInterleaved ==
    \A name \in ServiceNames :
        (/\ QueryWellFormed(name)
         /\ \A r \in ServiceRequests :
               svcReqs[r].name = name => svcReqs[r].search \in {"", "hits"}) =>
            Cardinality(ServicesNamed(name)) <= 1

\* GET /prr/compare has answered without a report
CompareRefused == response.handler = "compare" /\ response.status # 200

\* C25: GET /prr/compare answers with a report only for a non-empty
\* service_id and two non-empty, different submission ids that are both
\* stored with that service id (the report names the service_id and the two
\* ids of the request); every other answer of the handler is an error status
\* without a report.
C25_ReportOnlyForValidRequest ==
    /\ CompareAnswered =>
          LET rep == response.report IN
          /\ rep.ServiceID # ""
          /\ rep.PRRSubmissionIDOld # ""
          /\ rep.PRRSubmissionIDNew # ""
          /\ rep.PRRSubmissionIDOld # rep.PRRSubmissionIDNew
          /\ MapHas(submissions, rep.PRRSubmissionIDOld)
          /\ MapHas(submissions, rep.PRRSubmissionIDNew)
          /\ submissions.m[rep.PRRSubmissionIDOld].ServiceID = rep.ServiceID
          /\ submissions.m[rep.PRRSubmissionIDNew].ServiceID = rep.ServiceID
    /\ CompareRefused =>
          /\ response.status \in {400, 404, 500}
          /\ response.report = ZeroReport

\* two submissions of service2 were compared while p1 and p2 are stored
C25_Witness ==
    /\ CompareAnswered
    /\ response.report.ServiceID = "service2"
    /\ submissions.m["p1"].ServiceID = "service2"
    /\ submissions.m["p2"].ServiceID = "service2"

\* C26: in every report of GET /prr/compare an empty OldAnswer stands for a
\* question that the old submission does not answer and an empty NewAnswer for
\* a question that the new submission does not answer; no entry of
\* AnswerChanges has an empty OldAnswer or NewAnswer, whatever responses the
\* submissions accepted by POST /prr carry.
C26_EmptyMeansNotAnswered ==
    CompareAnswered =>
        /\ \A e \in AllEntries(response.report) :
              /\ e.OldAnswer = EmptyString => ~AnsweredIn(LabelledOld, e.QuestionID)
              /\ e.NewAnswer = EmptyString => ~AnsweredIn(LabelledNew, e.QuestionID)
        /\ \A e \in Entries(response.report.AnswerChanges) :
              e.OldAnswer # EmptyString /\ e.NewAnswer # EmptyString

\* the reports GET /prr/compare can answer with when sub1 is fetched for
\* prr_id1 and sub2 for prr_id2
ReportsFor(sub1, sub2, svc) ==
    LET old == OldOf(sub1, sub2)
        new == NewOf(sub1, sub2)
    IN  {HandlerReport(old, new, FetchQuestions(questions), svc, ordOld, ordNew) :
            ordOld \in Orderings(MapKeys(AnswersMap(old.Answers))),
            ordNew \in Orderings(MapKeys(AnswersMap(new.Answers)))}

\* C27: the answer of GET /prr/compare does not depend on which of the two
\* submissions is passed as prr_id1: with the two ids exchanged the handler
\* labels the same submission old and the same one new and answers with the
\* same report, also for two submissions of equal timestamps.
C27_SameResultWhenSwapped ==
    CompareAnswered =>
        /\ OldOf(LabelledOld, LabelledNew) = OldOf(LabelledNew, LabelledOld)
        /\ NewOf(LabelledOld, LabelledNew) = NewOf(LabelledNew, LabelledOld)
        /\ ReportsFor(LabelledOld, LabelledNew, response.report.ServiceID) = {response.report}
        /\ ReportsFor(LabelledNew, LabelledOld, response.report.ServiceID) = {response.report}

\* C3: every comparison report handed to a caller, the one returned by
\* generateComparisonReport and the one encoded by the /prr/compare handler, has
\* its three collections present, as an empty sequence when there is no entry.
C3_CollectionsNeverNil ==
    /\ Compared => CollectionsPresent(report)
    /\ CompareAnswered => CollectionsPresent(response.report)

====
